---- MODULE Spec2Model ----
(***************************************************************************)
(* LATOKEN assistant bot: the per-user conversation state kept by bot.py,  *)
(* the handlers registered in bot.main (start, help, reset, message), the  *)
(* ingestion, snapshot and retrieval paths of knowledge_base.py and        *)
(* scraper.py, and the translation helper of language_utils.py.            *)
(*                                                                         *)
(* Strings are modelled structurally.  A user message is a tuple of        *)
(* characters (the relevance gate lower-cases it and searches substrings). *)
(* A text produced by the bot is a tuple of pieces [s, tr]: s names the    *)
(* piece and tr the language a translation call rendered it in ("-" when   *)
(* it never went through the translation model).  Python's string          *)
(* concatenation is \o, string equality is tuple equality.                 *)
(*                                                                         *)
(* External services (language detection, embedding, completion,           *)
(* translation) are nondeterministic: every call takes its outcome from    *)
(* an environment record chosen per handler run, "raise" being a failure.  *)
(***************************************************************************)
EXTENDS Integers, Sequences, FiniteSets, TLC

VARIABLES
    knowledge_base,   \* bot.knowledge_base (module global)
    polling,          \* TRUE once main() has reached run_polling
    user_states,      \* bot.user_states: dict user_id -> UserState
    tasks,            \* handler coroutines in flight or just ended
    fn_in,            \* input of a pure function under test
    fn_out            \* its result

vars == <<knowledge_base, polling, user_states, tasks, fn_in, fn_out>>

-----------------------------------------------------------------------------
(* Bounds of the model *)

\* turns of one user without reset the environment sends (history length)
MaxHistory == 2
\* successful completions of one user the environment waits for
MaxAnswers == 3
\* the same two where two users write
MaxHistoryUsers == 1
MaxAnswersUsers == 2
\* the same two for the long single-user runs
MaxHistoryDeep == 3
MaxAnswersDeep == 6
\* the same two for the runs that follow a user across resets
MaxHistoryLifetime == 2
MaxAnswersLifetime == 6
\* the same two for the runs that fill the prompt's history window
MaxHistoryPrompt == 5
MaxAnswersPrompt == 2
\* the same two where updates arrive before the knowledge base is ready
MaxHistoryEarly == 1
MaxAnswersEarly == 1
\* sources whose fetch fails in one run of ingestion
MaxFailed == 1
\* the last batch of create_index whose embedding call can fail
MaxBatch == 2
\* the largest top_k query is called with on its own
MaxTopK == 8
\* words and blanks a question handed to the relevance gate alone is made of
MaxWords == 4
\* handler coroutines that can be in flight together if dispatch allowed it
MaxInFlight == 2
\* longest parallel lists handed to format_context alone
MaxDocs == 3

Users == {"u1", "u2"}

-----------------------------------------------------------------------------
(* Generic helpers *)

Min(a, b) == IF a < b THEN a ELSE b

\* LastN that takes from the front, seq[:n]
LastN_first(seq, n) == SubSeq(seq, 1, Min(n, Len(seq)))

\* Python's seq[-n:]
LastN(seq, n) == SubSeq(seq, Len(seq) - Min(n, Len(seq)) + 1, Len(seq))

\* needle in hay (Python's substring test on str)
Contains(hay, needle) ==
    \E i \in 1..(Len(hay) - Len(needle) + 1) :
        SubSeq(hay, i, i + Len(needle) - 1) = needle

UpperCase == <<"A","B","C","D","E","F","G","H","I","J","K","L","M",
               "N","O","P","Q","R","S","T","U","V","W","X","Y","Z">>
LowerCase == <<"a","b","c","d","e","f","g","h","i","j","k","l","m",
               "n","o","p","q","r","s","t","u","v","w","x","y","z">>

\* str.lower() on one character
LowerChar(c) ==
    IF \E i \in DOMAIN UpperCase : UpperCase[i] = c
    THEN LowerCase[CHOOSE i \in DOMAIN UpperCase : UpperCase[i] = c]
    ELSE c

\* lower that leaves the text as it is
lower_identity(text) == text

\* str.lower()
lower(text) == [i \in DOMAIN text |-> LowerChar(text[i])]

\* a piece of bot text that has not been through the translation model
Piece(s) == [s |-> s, tr |-> "-"]

-----------------------------------------------------------------------------
(* config.py *)

RELEVANT_TOPICS == <<
    <<"l","a","t","o","k","e","n">>,
    <<"h","a","c","k","a","t","h","o","n">>,
    <<"c","u","l","t","u","r","e">>,
    <<"i","n","t","e","r","v","i","e","w">>,
    <<"h","i","r","i","n","g">>,
    <<"w","o","r","k">>,
    <<"j","o","b">>,
    <<"a","p","p","l","i","c","a","t","i","o","n">>,
    <<"c","o","m","p","a","n","y">>,
    <<"v","a","l","u","e","s">>,
    <<"t","e","a","m">>,
    <<"w","a","r","t","i","m","e">>,
    <<"c","e","o">>,
    <<"s","u","g","a","r"," ","c","o","o","k","i","e">>,
    <<"t","e","s","t">>,
    <<"c","u","l","t","u","r","e"," ","d","e","c","k">>,
    <<"s","t","r","e","s","s">> >>

\* SOURCES, each URL split at "/"
SOURCES == <<
    <<"https:", "", "coda.io", "@latoken", "latoken-talent">>,
    <<"https:", "", "coda.io", "@latoken", "latoken-talent", "jobs-150">>,
    <<"https:", "", "coda.io", "@latoken", "latoken-talent", "jobs-123">>,
    <<"https:", "", "coda.io", "@latoken", "latoken-talent",
      "hr-referral-program-148">>,
    <<"https:", "", "coda.io", "@latoken", "latoken-talent", "culture-139">>,
    <<"https:", "", "coda.io", "@latoken", "latoken-talent", "latoken-161">>,
    <<"https:", "", "deliver.latoken.com", "hackathon">> >>

-----------------------------------------------------------------------------
(* scraper.py.  A text is known by where it came from and how long it is:  *)
(* obtained is TRUE for text read from the source, FALSE for the message   *)
(* the except branch builds from the exception.                            *)

\* length of the message "Error fetching content from <url>: <e>"
ErrorTextLen == 80

\* fetch_content: outcome "ok" is a response with len characters of text,
\* "raise" any exception of requests.get, raise_for_status or the parser
fetch_content(url, outcome, len) ==
    IF outcome = "raise"
    THEN [obtained |-> FALSE, len |-> ErrorTextLen]
    ELSE [obtained |-> TRUE, len |-> len]

\* read_markdown_file: "raise" is any exception of open or read
read_markdown_file(file_path, outcome, len) ==
    IF outcome = "raise"
    THEN [obtained |-> FALSE, len |-> ErrorTextLen]
    ELSE [obtained |-> TRUE, len |-> len]

\* fetch_all_sources: the dict source -> content in insertion order.  env:
\*   fetch:          the outcome of fetch_content for each of SOURCES
\*   page_len:       the length of a fetched page
\*   markdown_files: what get_markdown_files finds
\*   read, file_len: the outcome of reading each file, and a file's length
fetch_all_sources(env) ==
    [i \in 1..Len(SOURCES) |->
        [source |-> SOURCES[i],
         content |-> fetch_content(SOURCES[i], env.fetch[i], env.page_len)]]
    \o
    [i \in 1..Len(env.markdown_files) |->
        [source |-> env.markdown_files[i],
         content |-> read_markdown_file(env.markdown_files[i], env.read[i],
                                        env.file_len)]]

-----------------------------------------------------------------------------
(* language_utils.py *)

\* keys of LANGUAGE_MAP
LANGUAGE_MAP == {"en", "ru", "fr", "de", "es", "it", "zh", "ja", "ko", "ar"}

\* detect_language: the detector's answer, or 'ru' when it raises
detect_language(text, outcome) ==
    IF outcome = "raise" THEN "ru" ELSE outcome

\* the translation model's rendering of a text
Rendered(response, target_language) ==
    [i \in DOMAIN response |-> [s |-> response[i].s, tr |-> target_language]]

\* translate_response calls the translation model for this target
translate_calls_model(target_language) ==
    ~ (target_language = "en" \/ target_language \notin LANGUAGE_MAP)

\* translate_response: outcome is the translation model's ("ok" or "raise")
translate_response(response, target_language, outcome) ==
    IF target_language = "en" \/ target_language \notin LANGUAGE_MAP
    THEN response
    ELSE IF outcome = "raise" THEN response
         ELSE Rendered(response, target_language)

-----------------------------------------------------------------------------
(* knowledge_base.py *)

FilterSource == <<"filter">>
FilterText == "I can only answer questions about LATOKEN"

\* KnowledgeBase.is_question_relevant
is_question_relevant(question) ==
    LET question_lower == lower(question)
    IN  \E t \in DOMAIN RELEVANT_TOPICS :
            Contains(question_lower, RELEVANT_TOPICS[t])

\* documents and vectors of the index the bot serves from; a source is its
\* path split at "/", a vector a point on the integer line
Documents == <<
    [page_content |-> "culture-0",
     metadata |-> [source |-> <<"resources", "culture.md">>, chunk_id |-> 0]],
    [page_content |-> "culture-1",
     metadata |-> [source |-> <<"resources", "culture.md">>, chunk_id |-> 1]],
    [page_content |-> "hackathon-0",
     metadata |-> [source |-> <<"https:", "", "deliver.latoken.com", "hackathon">>,
                   chunk_id |-> 0]] >>
Vectors == <<0, 4, 1>>

\* squared L2 distance of IndexFlatL2
Distance(a, b) == (a - b) * (a - b)

\* position idx comes before position j in the ranking for query vector q
Before(index, q, idx, j) ==
    \/ Distance(index[idx], q) < Distance(index[j], q)
    \/ Distance(index[idx], q) = Distance(index[j], q) /\ idx < j

\* faiss IndexFlatL2.search: the top_k positions nearest first, 0-based,
\* padded with -1 when the index holds fewer than top_k vectors
search(index, q, top_k) ==
    [r \in 1..top_k |->
        IF r > Len(index) THEN -1
        ELSE (CHOOSE idx \in DOMAIN index :
                Cardinality({j \in DOMAIN index : Before(index, q, j, idx)}) = r - 1) - 1]

RECURSIVE Retrieve(_, _, _, _)
\* the loop of KnowledgeBase.query over indices[0]; self.documents[idx]
\* raises IndexError for a position the list does not have
Retrieve(kb, indices, i, acc) ==
    IF i > Len(indices) THEN acc
    ELSE IF indices[i] # -1
         THEN IF indices[i] + 1 > Len(kb.documents)
              THEN [acc EXCEPT !.raised = TRUE]
              ELSE LET doc == kb.documents[indices[i] + 1]
                   IN  Retrieve(kb, indices, i + 1,
                           [acc EXCEPT !.docs = Append(@, doc.page_content),
                                       !.metadata = Append(@, doc.metadata)])
         ELSE Retrieve(kb, indices, i + 1, acc)

TopK == 5

\* KnowledgeBase.query; embedding is the embedding service's outcome for the
\* question: [ok |-> TRUE, vector |-> v], or [ok |-> FALSE] when embed_query
\* raises.  raised: the exception left query (nothing in query catches it).
query_top_k(kb, question, embedding, top_k) ==
    IF ~ is_question_relevant(question)
    THEN [raised |-> FALSE, embed_calls |-> 0,
          docs |-> <<FilterText>>,
          metadata |-> <<[source |-> FilterSource, chunk_id |-> 0]>>]
    ELSE IF ~ embedding.ok
         THEN [raised |-> TRUE, embed_calls |-> 1, docs |-> <<>>, metadata |-> <<>>]
         ELSE LET indices == search(kb.index, embedding.vector, top_k)
                  got == Retrieve(kb, indices, 1,
                             [raised |-> FALSE, docs |-> <<>>, metadata |-> <<>>])
              IN  IF got.raised
                  THEN [raised |-> TRUE, embed_calls |-> 1,
                        docs |-> <<>>, metadata |-> <<>>]
                  ELSE [raised |-> FALSE, embed_calls |-> 1,
                        docs |-> got.docs, metadata |-> got.metadata]

\* query that calls embed_query a second time when the first call raised
query_retrying(kb, question, embedding) ==
    LET found == query_top_k(kb, question, embedding, TopK)
    IN  IF found.raised /\ ~ embedding.ok
        THEN [found EXCEPT !.embed_calls = 2]
        ELSE found

\* query as handle_message calls it (line 245), top_k at its default
query(kb, question, embedding) == query_top_k(kb, question, embedding, TopK)

\* knowledge_base before main() has initialized it (None)
NoKnowledgeBase == [ready |-> FALSE, documents |-> <<>>, index |-> <<>>]

\* the two files of a snapshot; data is what a reader of the file gets
NoFile == [exists |-> FALSE, data |-> <<>>]
File(data) == [exists |-> TRUE, data |-> data]

\* faiss.write_index: the bytes of a flat index are its header (the number
\* of vectors) and the vectors in the order they were added
write_index(index) == [ntotal |-> Len(index), codes |-> index]

\* read_index that takes the vectors in the file back to front
read_index_reversed(file) ==
    [i \in 1..file.ntotal |-> file.codes[file.ntotal + 1 - i]]

\* faiss.read_index: ntotal vectors read from the file
read_index(file) == [i \in 1..file.ntotal |-> file.codes[i]]

\* np.save of the list of Documents: an object array, each Document pickled
\* as its fields
np_save(documents) ==
    [shape |-> Len(documents),
     pickled |-> [i \in DOMAIN documents |->
                     <<documents[i].page_content, documents[i].metadata.source,
                       documents[i].metadata.chunk_id>>]]

\* np.load(allow_pickle=True).tolist(): the Documents rebuilt from the file
np_load(file) ==
    [i \in 1..file.shape |->
        [page_content |-> file.pickled[i][1],
         metadata |-> [source |-> file.pickled[i][2],
                       chunk_id |-> file.pickled[i][3]]]]

\* snapshot_exists that also wants the two files to hold as many entries
snapshot_exists_agreeing(disk) ==
    /\ disk.index.exists /\ disk.documents.exists
    /\ disk.index.data.ntotal = disk.documents.data.shape

\* line 31: both files of the snapshot exist
snapshot_exists(disk) == disk.index.exists /\ disk.documents.exists

\* KnowledgeBase.load_or_create_index: the return value and the object's
\* fields after the call (a new object has no index and no documents)
load_or_create_index(disk) ==
    IF snapshot_exists(disk)
    THEN [loaded |-> TRUE, index |-> read_index(disk.index.data),
          documents |-> np_load(disk.documents.data)]
    ELSE [loaded |-> FALSE, index |-> <<>>, documents |-> <<>>]

chunk_size == 1000
chunk_overlap == 200
batch_size == 20

RECURSIVE Windows(_, _, _)
\* the slices of a text of n characters without separators: chunk_size
\* characters each, the next one starting chunk_overlap before the end of
\* the previous one
Windows(n, start, acc) ==
    IF start + chunk_size >= n
    THEN Append(acc, [from |-> start, to |-> n])
    ELSE Windows(n, start + chunk_size - chunk_overlap,
                 Append(acc, [from |-> start, to |-> start + chunk_size]))

\* text_splitter.split_text
split_text(content) ==
    IF content.len = 0 THEN <<>> ELSE Windows(content.len, 0, <<>>)

\* lines 62-68: the Documents of one source
SourceDocuments(source, content) ==
    LET chunks == split_text(content)
    IN  [i \in 1..Len(chunks) |->
            [page_content |-> [obtained |-> content.obtained,
                               from |-> chunks[i].from, to |-> chunks[i].to],
             metadata |-> [source |-> source, chunk_id |-> i - 1]]]

RECURSIVE AllDocuments(_, _, _)
\* lines 60-68: the loop over source_contents
AllDocuments(source_contents, i, all_documents) ==
    IF i > Len(source_contents) THEN all_documents
    ELSE AllDocuments(source_contents, i + 1,
             all_documents \o SourceDocuments(source_contents[i].source,
                                              source_contents[i].content))

\* the vector the embedding service gives the chunk at position p (a point
\* on the integer line; nothing here depends on which)
EmbedVector(p) == (3 * p) % 7

\* batches the loop of lines 77-82 makes for n documents
Batches(n) == (n + batch_size - 1) \div batch_size

\* embed_batches that leaves out the chunks of a batch whose call raised
embed_batches_skipping(all_documents, embed_fail) ==
    LET n == Len(all_documents)
        kept == {p \in 1..n : (p - 1) \div batch_size + 1 # embed_fail}
    IN  [raised |-> FALSE, calls |-> Batches(n),
         embeddings_list |-> [k \in 1..Cardinality(kept) |-> 0]]

\* lines 73-82: embed_documents batch by batch; embed_fail is the number of
\* the batch whose call raises (0: none does).  Nothing catches the
\* exception, so it leaves the loop and create_index.
embed_batches(all_documents, embed_fail) ==
    LET n == Len(all_documents)
    IN  IF embed_fail \in 1..Batches(n)
        THEN [raised |-> TRUE, calls |-> embed_fail, embeddings_list |-> <<>>]
        ELSE [raised |-> FALSE, calls |-> Batches(n),
              embeddings_list |-> [p \in 1..n |-> EmbedVector(p)]]

\* KnowledgeBase.create_index on a new object: raised (an exception left
\* it), the object's fields and the disk when it ends
create_index(disk, env) ==
    LET source_contents == fetch_all_sources(env)
        all_documents == AllDocuments(source_contents, 1, <<>>)
        embedded == embed_batches(all_documents, env.embed_fail)
    IN  IF embedded.raised \/ embedded.embeddings_list = <<>>
        THEN \* embed_documents raised, or embeddings_list[0] did (line 85)
             [raised |-> TRUE, documents |-> all_documents, index |-> <<>>,
              index_built |-> FALSE, embed_calls |-> embedded.calls,
              source_contents |-> source_contents, disk |-> disk]
        ELSE [raised |-> FALSE, documents |-> all_documents,
              index |-> embedded.embeddings_list,
              index_built |-> TRUE, embed_calls |-> embedded.calls,
              source_contents |-> source_contents,
              disk |-> [index |-> File(write_index(embedded.embeddings_list)),
                        documents |-> File(np_save(all_documents))]]

\* initialize_knowledge_base: kb is the object it returns (None when an
\* exception left it); what happened on the way is kept with it
initialize_knowledge_base(disk, env) ==
    LET load == load_or_create_index(disk)
        created == create_index(disk, env)
    IN  IF load.loaded
        THEN [raised |-> FALSE, loaded |-> TRUE, create_calls |-> 0,
              load |-> load,
              kb |-> [ready |-> TRUE, documents |-> load.documents,
                      index |-> load.index],
              disk |-> disk, created |-> created]
        ELSE [raised |-> created.raised, loaded |-> FALSE, create_calls |-> 1,
              load |-> load,
              kb |-> IF created.raised THEN NoKnowledgeBase
                     ELSE [ready |-> TRUE, documents |-> created.documents,
                           index |-> created.index],
              disk |-> created.disk, created |-> created]

\* a run of ingestion in which every source answers with a short page
QuietIngestion ==
    [fetch |-> [i \in 1..Len(SOURCES) |-> "ok"], page_len |-> 300,
     markdown_files |-> <<>>, read |-> <<>>, file_len |-> 0, embed_fail |-> 0]

\* the snapshot the bot is started on
SnapshotDisk ==
    [index |-> File(write_index(Vectors)), documents |-> File(np_save(Documents))]

\* the knowledge base main() stores
ServedKnowledgeBase == initialize_knowledge_base(SnapshotDisk, QuietIngestion).kb

-----------------------------------------------------------------------------
(* bot.py: state and pure helpers *)

\* UserState.__init__
UserState ==
    [chat_history |-> <<>>, language |-> "ru", last_answer |-> <<>>,
     message_count |-> 0, gpt_answers |-> <<>>]

\* user_id in user_states
HasState(states, u) == u \in DOMAIN states

\* Put where every UserState shares one gpt_answers list
Put_shared_answers(states, u, value) ==
    [x \in (DOMAIN states) \cup {u} |->
        IF x = u THEN value
        ELSE [states[x] EXCEPT !.gpt_answers = value.gpt_answers]]

\* user_states[u] = value
Put(states, u, value) ==
    [x \in (DOMAIN states) \cup {u} |-> IF x = u THEN value ELSE states[x]]

\* meta["source"].split("/")[-1]
source_name(source) == source[Len(source)]

RECURSIVE FormatLoop_first_only(_, _, _, _)
\* FormatLoop that looks for the sentinel in the first pair only
FormatLoop_first_only(docs, metadata, i, context) ==
    IF i > Min(Len(docs), Len(metadata)) THEN context
    ELSE IF i = 1 /\ metadata[i].source = FilterSource THEN <<>>
         ELSE FormatLoop_first_only(docs, metadata, i + 1,
                  Append(context, [information |-> i,
                                   source |-> source_name(metadata[i].source),
                                   doc |-> docs[i]]))

RECURSIVE FormatLoop(_, _, _, _)
\* the loop of format_context over zip(docs, metadata), from pair i on
FormatLoop(docs, metadata, i, context) ==
    IF i > Min(Len(docs), Len(metadata)) THEN context
    ELSE IF metadata[i].source = FilterSource THEN <<>>
         ELSE FormatLoop(docs, metadata, i + 1,
                  Append(context, [information |-> i,
                                   source |-> source_name(metadata[i].source),
                                   doc |-> docs[i]]))

\* format_context; the empty string is <<>>
format_context(docs, metadata) == FormatLoop(docs, metadata, 1, <<>>)

\* follow_up_questions of generate_response
follow_up_questions == <<
    "checked the Culture Deck?", "looked at the company information?",
    "looked at the hackathon details?", "was this information useful?",
    "familiar with LATOKEN services?", "more about the interview process?",
    "other questions about LATOKEN?" >>

CheckHeader == "UNDERSTANDING CHECK"
CheckHeaderRu == "PROVERKA PONIMANIYA"
ErrorMessage == <<Piece("I'm sorry, I encountered an error")>>
Separator == <<Piece("\n\n")>>

\* what the completion service can answer to the comprehension prompt
CheckReply(kind) ==
    IF kind = "header"
    THEN <<Piece("SUMMARY: topics"), Piece(CheckHeader), Piece(": 1. 2. 3.")>>
    ELSE <<Piece("1. 2. 3.")>>

\* understanding_check.split("UNDERSTANDING CHECK")[1]
SplitSecond(text) ==
    LET first == CHOOSE i \in DOMAIN text :
                    /\ text[i].s = CheckHeader
                    /\ \A j \in 1..(i - 1) : text[j].s # CheckHeader
        rest == SubSeq(text, first + 1, Len(text))
        stop == IF \E j \in DOMAIN rest : rest[j].s = CheckHeader
                THEN CHOOSE j \in DOMAIN rest :
                        /\ rest[j].s = CheckHeader
                        /\ \A k \in 1..(j - 1) : rest[k].s # CheckHeader
                ELSE Len(rest) + 1
    IN  SubSeq(rest, 1, stop - 1)

\* lines 145-147: keep only the UNDERSTANDING CHECK part, relabelled
ExtractCheck(text) ==
    IF \E i \in DOMAIN text : text[i].s = CheckHeader
    THEN <<Piece(CheckHeaderRu)>> \o SplitSecond(text)
    ELSE text

\* should_check without the multiple-of-3 test
should_check_from_third(user_state) == Len(user_state.gpt_answers) >= 3

\* line 114: every 3rd stored answer gets a comprehension check
should_check(user_state) ==
    Len(user_state.gpt_answers) >= 3 /\ Len(user_state.gpt_answers) % 3 = 0

\* should_follow_up counting every 2nd message
should_follow_up_every_second(user_state) == user_state.message_count % 2 = 0

\* line 156: every 3rd message gets a follow-up question
should_follow_up(user_state) == user_state.message_count % 3 = 0

\* the except branch of generate_response
ErrorReply(language, env) ==
    IF language # "ru"
    THEN translate_response(ErrorMessage, language, env.translate)
    ELSE ErrorMessage

\* the translate_response call the except branch makes, if any
ErrorTranslations(language) ==
    IF language # "ru"
    THEN <<[text |-> ErrorMessage, target |-> language]>>
    ELSE <<>>

\* lines 72-75: SYSTEM_PROMPT, followed by the context when there is one
SystemMessage(context) == [prompt |-> "SYSTEM_PROMPT", context |-> context]

\* lines 94-98: a user and an assistant message for each history entry
HistoryMessages(history) ==
    [k \in 1..(2 * Len(history)) |->
        IF k % 2 = 1
        THEN [role |-> "user", content |-> history[(k + 1) \div 2].user]
        ELSE [role |-> "assistant", content |-> history[k \div 2].assistant]]

\* lines 77 and 91-101: the messages handed to the main completion call
Prompt(question, context, user_state) ==
    <<[role |-> "system", content |-> SystemMessage(context)]>>
    \o HistoryMessages(LastN(user_state.chat_history, 3))
    \o <<[role |-> "user", content |-> question]>>

\* record_answer that leaves message_count as it is
record_answer_uncounted(user_state, answer) ==
    [user_state EXCEPT !.gpt_answers = Append(@, answer)]

\* lines 108-111: the answer is stored and the message counted
record_answer(user_state, answer) ==
    [user_state EXCEPT !.gpt_answers = Append(@, answer),
                       !.message_count = @ + 1]

\* recent_answers that takes only the answers given since the last reset
recent_answers_since_reset(user_state) ==
    LastN(user_state.gpt_answers, Min(3, user_state.message_count))

\* lines 133-134: the answers put into the comprehension prompt
recent_answers(user_state) == LastN(user_state.gpt_answers, 3)

\* with_last_answer that stores the reply as it is sent
with_last_answer_reply(user_state, answer, complete_answer) ==
    [user_state EXCEPT !.last_answer = complete_answer]

\* line 174: last_answer becomes the raw answer of the completion
with_last_answer(user_state, answer, complete_answer) ==
    [user_state EXCEPT !.last_answer = answer]

\* should_translate_reply that does not look at the composed reply
should_translate_reply_always(language, complete_answer, answer) ==
    language # "ru"

\* line 169: the whole reply is translated when nothing was appended to it
should_translate_reply(language, complete_answer, answer) ==
    language # "ru" /\ complete_answer = answer

\* lines 168-176: the final translation, last_answer and the return value;
\* section is the text appended to the answer (empty: nothing appended) and
\* section_calls the translate_response call made for it
Finish(answer, section, section_calls, language, appended, env, branch, messages, check_calls) ==
    LET complete_answer == IF section = <<>> THEN answer
                           ELSE answer \o Separator \o section
        whole == should_translate_reply(language, complete_answer, answer)
    IN  [response |-> IF whole
                      THEN translate_response(complete_answer, language,
                                              env.translate)
                      ELSE complete_answer,
         user_state |-> with_last_answer(appended, answer, complete_answer),
         failed |-> FALSE, branch |-> branch, messages |-> messages,
         completion_calls |-> 1 + check_calls, check_calls |-> check_calls,
         check_answers |-> IF check_calls = 1 THEN recent_answers(appended)
                           ELSE <<>>,
         translations |->
             section_calls \o
             (IF whole THEN <<[text |-> complete_answer, target |-> language]>>
              ELSE <<>>)]

\* generate_response.  env: the outcomes of the external calls of this run,
\*   completion: the raw answer, or "raise"
\*   check:      "header" | "plain" | "raise", the comprehension completion
\*   follow_up:  the position random.choice picks
\*   translate:  "ok" | "raise", the translation model
\* The result holds the returned string (response), the mutated UserState,
\* and what happened: failed (the except branch ran), branch (which arm of
\* the augmentation decision ran), the messages of the main completion
\* call, the completion calls made (check_calls of them for the
\* comprehension check) and the translate_response calls in order.
generate_response(question, context, language, user_state, env) ==
    LET messages == Prompt(question, context, user_state)
    IN
    IF env.completion = "raise"
    THEN [response |-> ErrorReply(language, env), user_state |-> user_state,
          failed |-> TRUE, branch |-> "-", messages |-> messages,
          completion_calls |-> 1, check_calls |-> 0, check_answers |-> <<>>,
          translations |-> ErrorTranslations(language)]
    ELSE
    LET answer == <<Piece(env.completion)>>
        appended == record_answer(user_state, answer)
    IN  IF should_check(appended)
        THEN IF env.check = "raise"
             THEN [response |-> ErrorReply(language, env), user_state |-> appended,
                   failed |-> TRUE, branch |-> "check", messages |-> messages,
                   completion_calls |-> 2, check_calls |-> 1,
                   check_answers |-> recent_answers(appended),
                   translations |-> ErrorTranslations(language)]
             ELSE LET extracted == ExtractCheck(CheckReply(env.check))
                      understanding_check ==
                          IF language # "ru"
                          THEN translate_response(extracted, language, env.translate)
                          ELSE extracted
                  IN  Finish(answer, understanding_check,
                             IF language # "ru"
                             THEN <<[text |-> extracted, target |-> language]>>
                             ELSE <<>>,
                             language, appended, env, "check", messages, 1)
        ELSE IF should_follow_up(appended)
        THEN LET chosen == <<Piece(follow_up_questions[env.follow_up])>>
                 follow_up ==
                     IF language # "ru"
                     THEN translate_response(chosen, language, env.translate)
                     ELSE chosen
             IN  Finish(answer, follow_up,
                        IF language # "ru"
                        THEN <<[text |-> chosen, target |-> language]>>
                        ELSE <<>>,
                        language, appended, env, "follow_up", messages, 0)
        ELSE Finish(answer, <<>>, <<>>, language, appended, env, "none",
                    messages, 0)

-----------------------------------------------------------------------------
(* bot.py: the handlers.  The Application built in main() processes one    *)
(* update at a time and awaits its handler; a handler runs without         *)
(* interruption between two awaits that suspend it (send_action,           *)
(* reply_text).  A task is a handler coroutine: pc names the await it is   *)
(* suspended at ("typing", "reply"); a handler whose reply was sent is     *)
(* over and leaves tasks; one that an exception left stays, "crashed",     *)
(* until the next update is dispatched: it ended without sending a reply.  *)
(***************************************************************************)

Ended == {"crashed"}

LiveTasks == {t \in tasks : t.pc \notin Ended}

\* CanDispatch of an Application that processes updates concurrently
CanDispatch_concurrent == polling /\ Cardinality(LiveTasks) < MaxInFlight

\* the update loop hands the next update to its handler: main() builds the
\* Application without concurrent updates and registers blocking handlers,
\* so the previous handler has returned
CanDispatch == polling /\ LiveTasks = {}

FreeId == CHOOSE i \in 1..MaxInFlight : \A t \in LiveTasks : t.id # i

\* a handler coroutine for user u, fields at their start values
NewTask(u, kind, text) ==
    [id |-> FreeId, user |-> u, kind |-> kind, pc |-> "reply", text |-> text,
     lang |-> "ru", reply |-> <<>>, outcome |-> "command", branch |-> "-",
     detect_calls |-> 0, embed_calls |-> 0, completion_calls |-> 0,
     check_calls |-> 0, check_answers |-> <<>>,
     translations |-> <<>>, messages |-> <<>>,
     docs |-> <<>>, metadata |-> <<>>, context |-> <<>>]

Spawn(t) == tasks' = LiveTasks \cup {t}

Replace(t, new) == tasks' = (tasks \ {t}) \cup {new}

RECURSIVE strip(_)
\* str.strip() for blanks
strip(text) ==
    IF text # <<>> /\ Head(text) = " " THEN strip(Tail(text))
    ELSE IF text # <<>> /\ text[Len(text)] = " "
         THEN strip(SubSeq(text, 1, Len(text) - 1))
         ELSE text

WelcomeMessage == <<Piece("Welcome to the LATOKEN Assistant Bot!")>>
HelpText == <<Piece("LATOKEN Assistant Bot Help")>>
ResetMessage == <<Piece("Conversation history has been reset.")>>
NotReadyMessage == <<Piece("The knowledge base is still initializing.")>>

\* kb_ready that takes the knowledge base for initialized at any time
kb_ready_always(kb) == TRUE

\* the truth value of knowledge_base (handle_message line 219): None is
\* false, a KnowledgeBase object is true
kb_ready(kb) == kb.ready

\* main(), up to run_polling: the knowledge base is initialized, then the
\* Application is built and polls
main ==
    /\ ~ knowledge_base.ready
    /\ knowledge_base' = ServedKnowledgeBase
    /\ polling' = TRUE
    /\ UNCHANGED <<user_states, tasks, fn_in, fn_out>>

\* start, up to its await of reply_text
start(u, message_text, detected, translated) ==
    /\ CanDispatch
    /\ LET created == IF HasState(user_states, u) THEN user_states
                      ELSE Put(user_states, u, UserState)
           has_text == Len(message_text) > 7
           detected_lang ==
               detect_language(strip(SubSeq(message_text, 8, Len(message_text))),
                               detected)
           welcome_message ==
               IF has_text /\ detected_lang # "ru"
               THEN translate_response(WelcomeMessage, detected_lang, translated)
               ELSE WelcomeMessage
       IN  /\ user_states' =
                 IF has_text
                 THEN Put(created, u, [created[u] EXCEPT !.language = detected_lang])
                 ELSE created
           /\ Spawn([NewTask(u, "start", message_text) EXCEPT
                        !.reply = welcome_message,
                        !.lang = IF has_text THEN detected_lang ELSE "ru",
                        !.detect_calls = IF has_text THEN 1 ELSE 0])
    /\ UNCHANGED <<knowledge_base, polling, fn_in, fn_out>>

\* help_command, up to its await of reply_text
help_command(u, translated) ==
    /\ CanDispatch
    /\ LET user_lang == IF HasState(user_states, u) THEN user_states[u].language
                        ELSE "ru"
           help_text == IF user_lang # "ru"
                        THEN translate_response(HelpText, user_lang, translated)
                        ELSE HelpText
       IN  Spawn([NewTask(u, "help", <<>>) EXCEPT !.reply = help_text,
                                                  !.lang = user_lang])
    /\ UNCHANGED <<knowledge_base, polling, user_states, fn_in, fn_out>>

\* reset_state that keeps the last answer only
reset_state_keeps_last_answer(states, u) ==
    LET user_lang == IF HasState(states, u) THEN states[u].language ELSE "ru"
        gpt_answers == IF HasState(states, u) THEN states[u].gpt_answers ELSE <<>>
    IN  [UserState EXCEPT !.language = user_lang,
                          !.gpt_answers = LastN(gpt_answers, 1)]

\* reset_state that retains the language only
reset_state_drops_answers(states, u) ==
    [UserState EXCEPT
        !.language = IF HasState(states, u) THEN states[u].language ELSE "ru"]

\* reset_command, lines 303-313: the UserState that replaces u's
reset_state(states, u) ==
    LET user_lang == IF HasState(states, u) THEN states[u].language ELSE "ru"
        gpt_answers == IF HasState(states, u) THEN states[u].gpt_answers ELSE <<>>
    IN  [UserState EXCEPT !.language = user_lang, !.gpt_answers = gpt_answers]

\* reset_command, up to its await of reply_text
reset_command(u, translated) ==
    /\ CanDispatch
    /\ LET user_lang == IF HasState(user_states, u) THEN user_states[u].language
                        ELSE "ru"
           reset_message == IF user_lang # "ru"
                            THEN translate_response(ResetMessage, user_lang, translated)
                            ELSE ResetMessage
       IN  /\ user_states' = Put(user_states, u, reset_state(user_states, u))
           /\ Spawn([NewTask(u, "reset", <<>>) EXCEPT !.reply = reset_message,
                                                      !.lang = user_lang])
    /\ UNCHANGED <<knowledge_base, polling, fn_in, fn_out>>

\* handle_message from its start to its first await: the not-ready reply
\* (lines 219-223), or the state lookup, language detection and the typing
\* indicator (lines 225-242)
handle_message(u, user_message, detected) ==
    /\ CanDispatch
    /\ IF ~ kb_ready(knowledge_base)
       THEN /\ Spawn([NewTask(u, "message", user_message) EXCEPT
                         !.reply = NotReadyMessage, !.outcome = "not_ready"])
            /\ UNCHANGED user_states
       ELSE LET created == IF HasState(user_states, u) THEN user_states
                           ELSE Put(user_states, u, UserState)
                detected_lang == detect_language(user_message, detected)
            IN  /\ user_states' =
                      Put(created, u, [created[u] EXCEPT !.language = detected_lang])
                /\ Spawn([NewTask(u, "message", user_message) EXCEPT
                             !.pc = "typing", !.lang = detected_lang,
                             !.detect_calls = 1, !.outcome = "-"])
    /\ UNCHANGED <<knowledge_base, polling, fn_in, fn_out>>

\* handle_message from the return of send_action to the await of reply_text
\* (lines 245-261): retrieval, generate_response, the history append
respond(t, env) ==
    /\ t \in tasks
    /\ t.kind = "message"
    /\ t.pc = "typing"
    /\ \E found \in {query(knowledge_base, t.text, env.embedding)} :
          IF found.raised
          THEN /\ Replace(t, [t EXCEPT !.pc = "crashed", !.outcome = "raised",
                                       !.embed_calls = found.embed_calls])
               /\ UNCHANGED user_states
          ELSE \E context \in {format_context(found.docs, found.metadata)} :
               \E made \in {generate_response(t.text, context, t.lang,
                                               user_states[t.user], env)} :
                   /\ user_states' =
                         Put(user_states, t.user,
                             [made.user_state EXCEPT
                                 !.chat_history =
                                     Append(@, [user |-> t.text,
                                                assistant |-> made.response])])
                   /\ Replace(t, [t EXCEPT
                          !.pc = "reply", !.reply = made.response,
                          !.outcome = IF made.failed THEN "error" ELSE "ok",
                          !.branch = made.branch,
                          !.embed_calls = found.embed_calls,
                          !.completion_calls = made.completion_calls,
                          !.check_calls = made.check_calls,
                          !.check_answers = made.check_answers,
                          !.translations = made.translations,
                          !.messages = made.messages,
                          !.docs = found.docs, !.metadata = found.metadata,
                          !.context = context])
    /\ UNCHANGED <<knowledge_base, polling, fn_in, fn_out>>

\* reply_text returns: the handler is over
reply_sent(t) ==
    /\ t \in tasks
    /\ t.pc = "reply"
    /\ tasks' = tasks \ {t}
    /\ UNCHANGED <<knowledge_base, polling, user_states, fn_in, fn_out>>

-----------------------------------------------------------------------------
(* The environment: who writes what, and what the services answer *)

Question == <<"J","o","b","s","?">>
OffTopic == <<"R","a","i","n","?">>
StartPlain == <<"/","s","t","a","r","t">>
StartText == <<"/","s","t","a","r","t"," ","H","i">>

Outcomes == {"ok", "raise"}

\* what the services can answer within the run of respond that task t is
\* about to make; an outcome of a call the run does not make is left at its
\* first value, so that each distinct run is enumerated once
Envs(t, answers, vectors) ==
    LET user_state == user_states[t.user]
        relevant == is_question_relevant(t.text)
        n == Len(user_state.gpt_answers) + 1
        checks == n >= 3 /\ n % 3 = 0
        follows == ~ checks /\ (user_state.message_count + 1) % 3 = 0
    IN  [embedding : IF relevant
                     THEN {[ok |-> FALSE, vector |-> 0]}
                              \cup {[ok |-> TRUE, vector |-> v] : v \in vectors}
                     ELSE {[ok |-> FALSE, vector |-> 0]},
         completion : answers \cup {"raise"},
         check : IF checks THEN {"header", "plain", "raise"} ELSE {"plain"},
         follow_up : IF follows THEN DOMAIN follow_up_questions ELSE {1},
         translate : IF translate_calls_model(t.lang) THEN Outcomes ELSE {"ok"}]

\* the user has room for another turn within the bounds
Room(u, max_history, max_answers) ==
    HasState(user_states, u) =>
        /\ Len(user_states[u].chat_history) < max_history
        /\ Len(user_states[u].gpt_answers) < max_answers

NoFunction == [f |-> "none"]

Init ==
    /\ knowledge_base = NoKnowledgeBase
    /\ polling = FALSE
    /\ user_states = <<>>
    /\ tasks = {}
    /\ fn_in = NoFunction
    /\ fn_out = NoFunction

\* the updates the users in U send and the handlers' steps
Step(U, questions, starts, detections, answers, vectors, max_history, max_answers) ==
    \/ main
    \/ \E u \in U, m \in starts, d \in detections, tr \in Outcomes :
          start(u, m, d, tr)
    \/ \E u \in U, tr \in Outcomes : help_command(u, tr)
    \/ \E u \in U, tr \in Outcomes : reset_command(u, tr)
    \/ \E u \in U, q \in questions, d \in detections :
          Room(u, max_history, max_answers) /\ handle_message(u, q, d)
    \/ \E t \in {x \in tasks : x.pc = "typing"} :
          \E env \in Envs(t, answers, vectors) : respond(t, env)
    \/ \E t \in tasks : reply_sent(t)

\* one user, every kind of input, short conversations
Next ==
    Step({"u1"}, {Question, OffTopic}, {StartPlain, StartText},
         {"ru", "fr", "raise"}, {"a1", "a2"}, {1}, MaxHistory, MaxAnswers)

Spec == Init /\ [][Next]_vars

\* two users, one kind of question
NextUsers ==
    Step(Users, {Question}, {StartPlain}, {"ru", "fr"}, {"a1"}, {1},
         MaxHistoryUsers, MaxAnswersUsers)

SpecUsers == Init /\ [][NextUsers]_vars

\* one user, long conversations
NextDeep ==
    Step({"u1"}, {Question}, {StartPlain}, {"ru", "fr"}, {"a1"}, {1},
         MaxHistoryDeep, MaxAnswersDeep)

SpecDeep == Init /\ [][NextDeep]_vars

\* one user, two answer texts, conversations cut short by resets
NextLifetime ==
    Step({"u1"}, {Question}, {StartPlain}, {"ru"}, {"a1", "a2"}, {1},
         MaxHistoryLifetime, MaxAnswersLifetime)

SpecLifetime == Init /\ [][NextLifetime]_vars

\* one user, conversations longer than the prompt's history window
NextPrompt ==
    Step({"u1"}, {Question, OffTopic}, {StartPlain}, {"ru"}, {"a1"}, {1},
         MaxHistoryPrompt, MaxAnswersPrompt)

SpecPrompt == Init /\ [][NextPrompt]_vars

\* the module as imported (knowledge_base = None, user_states = {}) with its
\* handlers already receiving updates: main() has not stored the knowledge
\* base yet when the first updates are dispatched
InitEarly ==
    /\ knowledge_base = NoKnowledgeBase
    /\ polling = TRUE
    /\ user_states = <<>>
    /\ tasks = {}
    /\ fn_in = NoFunction
    /\ fn_out = NoFunction

NextEarly ==
    Step({"u1"}, {Question, OffTopic}, {StartPlain, StartText},
         {"ru", "fr"}, {"a1"}, {1}, MaxHistoryEarly, MaxAnswersEarly)

SpecEarly == InitEarly /\ [][NextEarly]_vars

-----------------------------------------------------------------------------
(* query and format_context on their own: the inputs are drawn in the      *)
(* initial state, the one action applies the function                      *)

\* parallel lists of texts and metadata records, as query returns them
Pairs ==
    {[doc |-> d, meta |-> [source |-> src, chunk_id |-> 0]] :
        d \in {"text-a", "text-b"},
        src \in {FilterSource, <<"resources", "culture.md">>}}

ParallelLists == UNION {[1..n -> Pairs] : n \in 0..MaxDocs}

GateQuestions ==
    {Question, OffTopic, <<"C","E","O">>, <<"c","e"," ","o">>, <<>>,
     <<"T","e","a"," ","M">>, <<"s","t","r","e","s","s">>}

FormatInputs ==
    {[f |-> "query", question |-> q, embedding |-> e, docs |-> <<>>, metadata |-> <<>>] :
        q \in GateQuestions,
        e \in {[ok |-> FALSE, vector |-> 0], [ok |-> TRUE, vector |-> 1]}}
    \cup
    {[f |-> "format_context", question |-> <<>>,
      embedding |-> [ok |-> FALSE, vector |-> 0],
      docs |-> [i \in DOMAIN l |-> l[i].doc],
      metadata |-> [i \in DOMAIN l |-> l[i].meta]] : l \in ParallelLists}

InitFormat ==
    /\ knowledge_base = NoKnowledgeBase
    /\ polling = FALSE
    /\ user_states = <<>>
    /\ tasks = {}
    /\ fn_in \in FormatInputs
    /\ fn_out = NoFunction

\* handle_message lines 245-248 on the drawn input: query, then format_context
apply_query_format ==
    /\ fn_out = NoFunction
    /\ LET found == IF fn_in.f = "query"
                    THEN query(ServedKnowledgeBase, fn_in.question, fn_in.embedding)
                    ELSE [raised |-> FALSE, embed_calls |-> 0,
                          docs |-> fn_in.docs, metadata |-> fn_in.metadata]
       IN  fn_out' = [f |-> "done", raised |-> found.raised,
                      docs |-> found.docs, metadata |-> found.metadata,
                      context |-> IF found.raised THEN <<>>
                                  ELSE format_context(found.docs, found.metadata)]
    /\ UNCHANGED <<knowledge_base, polling, user_states, tasks, fn_in>>

NextFormat == apply_query_format

SpecFormat == InitFormat /\ [][NextFormat]_vars

-----------------------------------------------------------------------------
(* initialize_knowledge_base on its own: the files found on disk and the   *)
(* answers of the sources and of the embedding service are drawn in the    *)
(* initial state, the one action runs the initialization                   *)

SnapshotSizes == {2, 3}

\* the index file: absent, or written with the vectors of some run
IndexFiles ==
    {NoFile} \cup {File(write_index(SubSeq(Vectors, 1, n))) : n \in SnapshotSizes}

\* the documents file: absent, or written with the documents of some run
DocumentFiles ==
    {NoFile} \cup {File(np_save(SubSeq(Documents, 1, n))) : n \in SnapshotSizes}

Disks == [index : IndexFiles, documents : DocumentFiles]

MarkdownFile == <<"resources", "culture.md">>

\* the outcomes of fetch_content, at most MaxFailed of them failures
Fetches ==
    {f \in [1..Len(SOURCES) -> Outcomes] :
        Cardinality({i \in DOMAIN f : f[i] = "raise"}) <= MaxFailed}

Ingestions ==
    {[fetch |-> f, page_len |-> n, markdown_files |-> m.files, read |-> m.read,
      file_len |-> 1200, embed_fail |-> b] :
        f \in Fetches, n \in {0, 300, 2600},
        m \in {[files |-> <<>>, read |-> <<>>],
               [files |-> <<MarkdownFile>>, read |-> <<"ok">>],
               [files |-> <<MarkdownFile>>, read |-> <<"raise">>]},
        b \in 0..MaxBatch}

InitIngest ==
    /\ knowledge_base = NoKnowledgeBase
    /\ polling = FALSE
    /\ user_states = <<>>
    /\ tasks = {}
    /\ fn_in \in {[f |-> "initialize", disk |-> d, env |-> e] :
                      d \in Disks, e \in Ingestions}
    /\ fn_out = NoFunction

\* main() line 330 on the drawn disk and environment
apply_initialize ==
    /\ fn_out = NoFunction
    /\ fn_out' = [f |-> "initialized",
                  result |-> initialize_knowledge_base(fn_in.disk, fn_in.env)]
    /\ UNCHANGED <<knowledge_base, polling, user_states, tasks, fn_in>>

NextIngest == apply_initialize

SpecIngest == InitIngest /\ [][NextIngest]_vars

-----------------------------------------------------------------------------
(* KnowledgeBase.query on its own, on every knowledge base that            *)
(* initialize_knowledge_base returns for the disks above                   *)

KnowledgeBases ==
    {kb \in {initialize_knowledge_base(d, QuietIngestion).kb : d \in Disks} :
        kb.ready}

QueryInputs ==
    {[f |-> "query_top_k", kb |-> kb, question |-> q, embedding |-> e,
      top_k |-> k] :
        kb \in KnowledgeBases,
        q \in {Question, <<"C","E","O">>, OffTopic},
        e \in {[ok |-> FALSE, vector |-> 0]}
                 \cup {[ok |-> TRUE, vector |-> v] : v \in 0..4},
        k \in 1..MaxTopK}

InitQuery ==
    /\ knowledge_base = NoKnowledgeBase
    /\ polling = FALSE
    /\ user_states = <<>>
    /\ tasks = {}
    /\ fn_in \in QueryInputs
    /\ fn_out = NoFunction

\* kb.query(question, top_k) on the drawn input
apply_query ==
    /\ fn_out = NoFunction
    /\ fn_out' = [f |-> "queried",
                  result |-> query_top_k(fn_in.kb, fn_in.question,
                                         fn_in.embedding, fn_in.top_k)]
    /\ UNCHANGED <<knowledge_base, polling, user_states, tasks, fn_in>>

NextQuery == apply_query

SpecQuery == InitQuery /\ [][NextQuery]_vars

-----------------------------------------------------------------------------
(* Two starts of the bot in a row: the first finds no snapshot and builds  *)
(* one, the second loads what the first wrote.  The query vector and top_k *)
(* the two knowledge bases are compared on are drawn with the environment. *)

EmptyDisk == [index |-> NoFile, documents |-> NoFile]

QueryVectors == 0..6

RoundTripInputs ==
    {[f |-> "round_trip", env |-> e, vector |-> v, top_k |-> k] :
        e \in {x \in Ingestions : x.embed_fail = 0 /\ x.page_len # 0},
        v \in QueryVectors, k \in 1..MaxTopK}

InitRoundTrip ==
    /\ knowledge_base = NoKnowledgeBase
    /\ polling = FALSE
    /\ user_states = <<>>
    /\ tasks = {}
    /\ fn_in \in RoundTripInputs
    /\ fn_out = NoFunction

\* the first start: initialize_knowledge_base with nothing on disk
apply_create_index ==
    /\ fn_out = NoFunction
    /\ fn_out' = [f |-> "created",
                  first |-> initialize_knowledge_base(EmptyDisk, fn_in.env)]
    /\ UNCHANGED <<knowledge_base, polling, user_states, tasks, fn_in>>

\* the second start: a new KnowledgeBase on the disk the first start left
apply_load ==
    /\ fn_out.f = "created"
    /\ ~ fn_out.first.raised
    /\ fn_out' = [f |-> "reloaded", first |-> fn_out.first,
                  second |-> initialize_knowledge_base(fn_out.first.disk,
                                                       fn_in.env)]
    /\ UNCHANGED <<knowledge_base, polling, user_states, tasks, fn_in>>

NextRoundTrip == apply_create_index \/ apply_load

SpecRoundTrip == InitRoundTrip /\ [][NextRoundTrip]_vars

-----------------------------------------------------------------------------
(* is_question_relevant on its own: the questions are made of a few words  *)
(* and blanks, so that one question occurs in several spellings of case    *)
(* and whitespace                                                          *)

GateWords ==
    {<<"S","u","g","a","r">>, <<"c","o","o","k","i","e">>, <<"r","a","i","n">>,
     <<" ">>}

RECURSIVE Flatten(_)
\* the words of a question written one after the other
Flatten(words) ==
    IF words = <<>> THEN <<>> ELSE Head(words) \o Flatten(Tail(words))

GateInputs ==
    {[f |-> "is_question_relevant", question |-> Flatten(w)] :
        w \in UNION {[1..n -> GateWords] : n \in 1..MaxWords}}
    \cup
    {[f |-> "is_question_relevant", question |-> q] : q \in GateQuestions}

InitGate ==
    /\ knowledge_base = NoKnowledgeBase
    /\ polling = FALSE
    /\ user_states = <<>>
    /\ tasks = {}
    /\ fn_in \in GateInputs
    /\ fn_out = NoFunction

\* kb.is_question_relevant(question) on the drawn question
apply_is_question_relevant ==
    /\ fn_out = NoFunction
    /\ fn_out' = [f |-> "gated", relevant |-> is_question_relevant(fn_in.question)]
    /\ UNCHANGED <<knowledge_base, polling, user_states, tasks, fn_in>>

NextGate == apply_is_question_relevant

SpecGate == InitGate /\ [][NextGate]_vars

-----------------------------------------------------------------------------
(* translate_response on its own *)

\* language codes a caller can pass: the keys of LANGUAGE_MAP and two codes
\* that are not among them
TargetLanguages == LANGUAGE_MAP \cup {"pt", "xx"}

TranslateInputs ==
    {[f |-> "translate_response", response |-> r, target_language |-> l,
      outcome |-> o] :
        r \in {WelcomeMessage, HelpText, ResetMessage, ErrorMessage,
               <<Piece("a1"), Piece("\n\n"), Piece(follow_up_questions[1])>>},
        l \in TargetLanguages, o \in Outcomes}

InitTranslate ==
    /\ knowledge_base = NoKnowledgeBase
    /\ polling = FALSE
    /\ user_states = <<>>
    /\ tasks = {}
    /\ fn_in \in TranslateInputs
    /\ fn_out = NoFunction

\* translate_response(response, target_language) on the drawn input
apply_translate_response ==
    /\ fn_out = NoFunction
    /\ fn_out' = [f |-> "translated",
                  response |-> translate_response(fn_in.response,
                                                  fn_in.target_language,
                                                  fn_in.outcome),
                  model_called |-> translate_calls_model(fn_in.target_language)]
    /\ UNCHANGED <<knowledge_base, polling, user_states, tasks, fn_in>>

NextTranslate == apply_translate_response

SpecTranslate == InitTranslate /\ [][NextTranslate]_vars

-----------------------------------------------------------------------------
(* Properties *)

\* a message turn that generate_response has answered and whose reply is
\* about to be sent
Answered(t) ==
    t.kind = "message" /\ t.pc = "reply" /\ t.outcome \in {"ok", "error"}

\* the main completion call of the turn returned an answer
MainCompleted(t) == Answered(t) /\ t.branch # "-"

CheckPieces == {CheckHeaderRu, CheckHeader, ": 1. 2. 3.", "1. 2. 3.", "SUMMARY: topics"}

HasCheckBlock(reply) == \E i \in DOMAIN reply : reply[i].s \in CheckPieces

HasFollowUp(reply) ==
    \E i \in DOMAIN reply : \E k \in DOMAIN follow_up_questions :
        reply[i].s = follow_up_questions[k]

Augmented(reply) == HasCheckBlock(reply) \/ HasFollowUp(reply)

\* C1: in every turn whose main completion succeeded, with n the length of
\* gpt_answers and c the message_count after the append and the increment:
\* the comprehension-check arm runs iff n >= 3 and n is a multiple of 3,
\* otherwise the follow-up arm runs iff c is a multiple of 3, otherwise
\* neither; the reply carries a comprehension block only from the first arm
\* (and always when that arm's completion call returned), a follow-up
\* question exactly from the second, never both; for n in 1..6 only 3 and 6
\* give a comprehension check.
C1_AugmentationDecision ==
    \A t \in tasks : MainCompleted(t) =>
        LET n == Len(user_states[t.user].gpt_answers)
            c == user_states[t.user].message_count
            a == n >= 3 /\ n % 3 = 0
            b == ~ a /\ c % 3 = 0
        IN  /\ (t.branch = "check") <=> a
            /\ (t.branch = "follow_up") <=> b
            /\ (t.branch = "none") <=> (~ a /\ ~ b)
            /\ HasCheckBlock(t.reply) <=> (a /\ t.outcome = "ok")
            /\ HasFollowUp(t.reply) <=> b
            /\ ~ (HasCheckBlock(t.reply) /\ HasFollowUp(t.reply))
            /\ (n \in 1..6 /\ HasCheckBlock(t.reply)) => n \in {3, 6}
            /\ (~ a /\ ~ b) => Len(t.reply) = 1

\* a turn that brought gpt_answers to 6 replies with a comprehension block
C1_Witness ==
    \E t \in tasks :
        /\ MainCompleted(t) /\ t.outcome = "ok"
        /\ Len(user_states[t.user].gpt_answers) = 6
        /\ HasCheckBlock(t.reply)

\* C2 as stated: of the successful turns that bring message_count to 1, 2
\* and 3, only the one that brings it to 3 appends a follow-up or a
\* comprehension block.
C2_OnlyThirdTurnAugments ==
    \A t \in tasks : (Answered(t) /\ t.outcome = "ok") =>
        LET c == user_states[t.user].message_count
        IN  /\ c \in {1, 2} => ~ Augmented(t.reply)
            /\ c = 3 => Augmented(t.reply)

\* C2 amended: the successful turn that brings message_count to 3 appends a
\* block; the ones that bring it to 1 or 2 append none unless they bring the
\* length of gpt_answers to a multiple of 3, in which case they append a
\* comprehension block.
C2_ThirdTurnAugments ==
    \A t \in tasks : (Answered(t) /\ t.outcome = "ok") =>
        LET c == user_states[t.user].message_count
            n == Len(user_states[t.user].gpt_answers)
        IN  /\ c = 3 => Augmented(t.reply)
            /\ (c \in {1, 2} /\ n % 3 # 0) => ~ Augmented(t.reply)
            /\ (c \in {1, 2} /\ n % 3 = 0) => HasCheckBlock(t.reply)

\* a successful turn brought message_count to 3 while gpt_answers is not at
\* a multiple of 3, and a follow-up question was appended
C2_Witness ==
    \E t \in tasks :
        /\ Answered(t) /\ t.outcome = "ok"
        /\ user_states[t.user].message_count = 3
        /\ Len(user_states[t.user].gpt_answers) % 3 # 0
        /\ HasFollowUp(t.reply)

\* C3: a step that runs reset_command for u leaves u with the language and
\* gpt_answers u had before (the default language and no answers when u had
\* no state), an empty chat_history and message_count 0.
C3_ResetKeepsLanguageAndAnswers ==
    [][\A t \in tasks' \ tasks : t.kind = "reset" =>
          /\ HasState(user_states', t.user)
          /\ user_states'[t.user].language =
                 (IF HasState(user_states, t.user)
                  THEN user_states[t.user].language ELSE "ru")
          /\ user_states'[t.user].gpt_answers =
                 (IF HasState(user_states, t.user)
                  THEN user_states[t.user].gpt_answers ELSE <<>>)
          /\ user_states'[t.user].chat_history = <<>>
          /\ user_states'[t.user].message_count = 0]_vars

\* a reset has just run for a user who keeps two answers and a language
\* other than the default
C3_Witness ==
    \E t \in tasks :
        /\ t.kind = "reset" /\ t.pc = "reply"
        /\ Len(user_states[t.user].gpt_answers) = 2
        /\ user_states[t.user].gpt_answers[1] # user_states[t.user].gpt_answers[2]
        /\ user_states[t.user].language = "fr"
        /\ user_states[t.user].chat_history = <<>>

\* the step in which the turn of task t ends in the generic error message
FailsNow(t) ==
    /\ t.kind = "message" /\ t.pc = "typing"
    /\ \E after \in tasks' : after.id = t.id /\ after.outcome = "error"

\* C4: a turn that fails (the completion or the comprehension call raises)
\* is not recorded: the user's chat_history after it is the one before it.
C4_FailedTurnNotRecorded ==
    [][\A t \in tasks : FailsNow(t) =>
          user_states'[t.user].chat_history = user_states[t.user].chat_history]_vars

\* C5: no turn ends without a reply: no exception leaves handle_message.
C5_TurnAlwaysReplies == \A t \in tasks : t.pc # "crashed"

\* C6: a failed turn leaves gpt_answers as it was before the turn.
C6_FailedTurnKeepsAnswers ==
    [][\A t \in tasks : FailsNow(t) =>
          user_states'[t.user].gpt_answers = user_states[t.user].gpt_answers]_vars

\* C7: a turn whose question the relevance gate rejects makes no embedding
\* call and no completion call.
C7_RejectedMakesNoCalls ==
    \A t \in tasks : (Answered(t) /\ ~ is_question_relevant(t.text)) =>
        t.embed_calls = 0 /\ t.completion_calls = 0

\* C8: for a question the gate rejects, query returns one text and one
\* metadata record whose source is "filter", and format_context of them is
\* the empty string; format_context of parallel lists is the empty string
\* whenever a record with source "filter" is at any position.
C8_FilterGivesEmptyContext ==
    fn_out.f = "done" =>
        /\ (fn_in.f = "query" /\ ~ is_question_relevant(fn_in.question)) =>
              /\ ~ fn_out.raised
              /\ Len(fn_out.docs) = 1 /\ Len(fn_out.metadata) = 1
              /\ fn_out.metadata[1].source = FilterSource
              /\ fn_out.context = <<>>
        /\ (fn_in.f = "format_context"
              /\ \E i \in DOMAIN fn_in.metadata :
                    fn_in.metadata[i].source = FilterSource) =>
              fn_out.context = <<>>

\* format_context has returned the empty string for three pairs of which
\* only the last carries the sentinel
C8_Witness ==
    /\ fn_out.f = "done" /\ fn_in.f = "format_context"
    /\ Len(fn_in.metadata) = 3
    /\ fn_in.metadata[1].source # FilterSource
    /\ fn_in.metadata[2].source # FilterSource
    /\ fn_in.metadata[3].source = FilterSource
    /\ fn_out.context = <<>>

SameState(v) ==
    /\ HasState(user_states', v) <=> HasState(user_states, v)
    /\ HasState(user_states, v) => user_states'[v] = user_states[v]

\* C10: a step of a handler run for user u leaves the state of every other
\* user as it was, and a step of no handler changes no state.
C10_OtherUsersUntouched ==
    [][/\ \A t \in tasks' \ tasks : \A v \in Users \ {t.user} : SameState(v)
       /\ (tasks' \ tasks = {}) => user_states' = user_states]_vars

\* a turn of one user has just been answered while another user holds an
\* answer of their own
C10_Witness ==
    \E t \in tasks : \E v \in Users \ {t.user} :
        /\ Answered(t)
        /\ HasState(user_states, v)
        /\ Len(user_states[v].gpt_answers) = 1

\* C11: no step queries the index unless the knowledge base has been
\* initialized; a message handled while it is not gets the 'still
\* initializing' reply at once, with no language detection, no embedding and
\* no completion call, and the step creates or changes no UserState.
C11_NotReadyOnlyReplies ==
    [][/\ \A t \in tasks' : (t.kind = "message" /\ t.outcome # "not_ready") =>
             knowledge_base.ready
       /\ \A t \in tasks' \ tasks :
             (t.kind = "message" /\ ~ knowledge_base.ready) =>
                 /\ t.pc = "reply" /\ t.reply = NotReadyMessage
                 /\ t.outcome = "not_ready"
                 /\ t.detect_calls = 0 /\ t.embed_calls = 0
                 /\ t.completion_calls = 0
                 /\ t.docs = <<>>
                 /\ user_states' = user_states]_vars

\* a user who already has a conversation state in another language writes
\* before the knowledge base is ready and is about to get the 'still
\* initializing' reply
C11_Witness ==
    \E t \in tasks :
        /\ t.kind = "message" /\ t.outcome = "not_ready" /\ t.pc = "reply"
        /\ ~ knowledge_base.ready
        /\ HasState(user_states, t.user)
        /\ user_states[t.user].language = "fr"

\* initialize_knowledge_base has run and found no snapshot to load
Ingested == fn_out.f = "initialized" /\ ~ fn_out.result.loaded

\* C12: in an ingestion that completes, a source whose fetch or read failed
\* contributes no chunk, the other sources are still ingested, and the text
\* of every indexed chunk is a slice of text obtained from its source.
C12_FailedSourceSkipped ==
    (Ingested /\ ~ fn_out.result.raised) =>
        LET documents == fn_out.result.kb.documents
            source_contents == fn_out.result.created.source_contents
        IN  /\ \A i \in DOMAIN documents : documents[i].page_content.obtained
            /\ \A k \in DOMAIN source_contents :
                  (\E i \in DOMAIN documents :
                       documents[i].metadata.source = source_contents[k].source)
                  <=> (source_contents[k].content.obtained
                          /\ source_contents[k].content.len > 0)

\* the embedding call of one of the batches create_index makes fails
BatchFails ==
    /\ Ingested
    /\ fn_in.env.embed_fail \in 1..Batches(Len(fn_out.result.created.documents))

\* C13: when the embedding call of a batch fails, create_index ends in the
\* exception, both snapshot files are as they were before, and no index is
\* built; an index that is built, and a snapshot that is written, holds one
\* vector for each chunk.
C13_BatchFailureSurfaces ==
    /\ BatchFails =>
          /\ fn_out.result.raised /\ fn_out.result.created.raised
          /\ fn_out.result.disk = fn_in.disk
          /\ ~ fn_out.result.created.index_built
          /\ fn_out.result.kb = NoKnowledgeBase
    /\ Ingested =>
          /\ fn_out.result.created.index_built =>
                Len(fn_out.result.created.index)
                    = Len(fn_out.result.created.documents)
          /\ fn_out.result.disk # fn_in.disk =>
                /\ fn_out.result.disk.index.data.ntotal
                       = Len(fn_out.result.created.documents)
                /\ np_load(fn_out.result.disk.documents.data)
                       = fn_out.result.created.documents

\* the second of two batches failed: the first 20 chunks were embedded, the
\* exception left create_index, and the one snapshot file that existed is
\* all there is on disk
C13_Witness ==
    /\ BatchFails
    /\ fn_in.env.embed_fail = 2
    /\ Len(fn_out.result.created.documents) > batch_size
    /\ fn_out.result.raised
    /\ fn_in.disk.index.exists /\ ~ fn_in.disk.documents.exists
    /\ fn_out.result.disk = fn_in.disk

\* C14: initialize_knowledge_base loads the snapshot iff both of its files
\* exist, and then makes no call of create_index; if either file is missing
\* load_or_create_index returns False with nothing loaded, create_index is
\* called exactly once, and when it returns both files are written with the
\* index and the documents it built.
C14_LoadIffBothExist ==
    fn_out.f = "initialized" =>
        LET result == fn_out.result
            both == fn_in.disk.index.exists /\ fn_in.disk.documents.exists
        IN  /\ result.loaded <=> both
            /\ both =>
                  /\ result.create_calls = 0 /\ ~ result.raised
                  /\ result.kb.ready
                  /\ result.kb.index = read_index(fn_in.disk.index.data)
                  /\ result.kb.documents = np_load(fn_in.disk.documents.data)
                  /\ result.disk = fn_in.disk
            /\ ~ both =>
                  /\ ~ result.load.loaded
                  /\ result.load.index = <<>> /\ result.load.documents = <<>>
                  /\ result.create_calls = 1
                  /\ ~ result.raised =>
                        /\ result.disk.index = File(write_index(result.kb.index))
                        /\ result.disk.documents = File(np_save(result.kb.documents))
                        /\ result.kb.index = result.created.index
                        /\ result.kb.documents = result.created.documents

\* only the index file existed: nothing was loaded, create_index ran and
\* wrote both files anew
C14_Witness ==
    /\ Ingested /\ ~ fn_out.result.raised
    /\ fn_in.disk.index.exists /\ ~ fn_in.disk.documents.exists
    /\ fn_out.result.create_calls = 1
    /\ fn_out.result.disk.index.exists /\ fn_out.result.disk.documents.exists
    /\ fn_out.result.disk.index.data # fn_in.disk.index.data

\* C15: a knowledge base that is ready holds as many vectors as documents;
\* a snapshot whose two files disagree in count is not loaded and
\* create_index rebuilds it.
C15_CountsAgree ==
    fn_out.f = "initialized" =>
        LET result == fn_out.result
            disagree == /\ fn_in.disk.index.exists /\ fn_in.disk.documents.exists
                        /\ fn_in.disk.index.data.ntotal
                               # fn_in.disk.documents.data.shape
        IN  /\ result.kb.ready => Len(result.kb.index) = Len(result.kb.documents)
            /\ disagree => (~ result.loaded /\ result.create_calls = 1)

\* C16: for a question the gate accepts and an embedding call that returns,
\* query on an index of N vectors does not fail and returns min(top_k, N)
\* texts and as many metadata records, the i-th text and the i-th record
\* those of one document.
C16_ReturnsMinTopKN ==
    (/\ fn_out.f = "queried"
     /\ is_question_relevant(fn_in.question) /\ fn_in.embedding.ok) =>
        LET result == fn_out.result
            N == Len(fn_in.kb.index)
        IN  /\ ~ result.raised
            /\ Len(result.docs) = Min(fn_in.top_k, N)
            /\ Len(result.metadata) = Min(fn_in.top_k, N)
            /\ \A i \in DOMAIN result.docs :
                  \E p \in DOMAIN fn_in.kb.documents :
                      /\ fn_in.kb.documents[p].page_content = result.docs[i]
                      /\ fn_in.kb.documents[p].metadata = result.metadata[i]

\* the text holds a piece of the base answer
HoldsAnswer(text, answer) ==
    \E i \in DOMAIN text : \E k \in DOMAIN answer : text[i].s = answer[k].s

\* C17: in a successful turn of a user whose language is not the default
\* 'ru', translate_response is called on the whole reply iff neither a
\* comprehension block nor a follow-up was appended; when one was appended,
\* the one translate_response call of the turn is for the appended section
\* and the reply starts with the base answer as the completion gave it,
\* whether or not the section's translation succeeded.
C17_WholeReplyTranslatedIffPlain ==
    \A t \in tasks : (Answered(t) /\ t.outcome = "ok" /\ t.lang # "ru") =>
        LET answer == user_states[t.user].last_answer
            whole == \E i \in DOMAIN t.translations :
                         HoldsAnswer(t.translations[i].text, answer)
        IN  /\ whole <=> t.branch = "none"
            /\ t.branch = "none" =>
                  t.translations = <<[text |-> answer, target |-> t.lang]>>
            /\ t.branch # "none" =>
                  /\ Len(t.translations) = 1
                  /\ t.translations[1].target = t.lang
                  /\ t.translations[1].text # <<>>
                  /\ Len(t.reply) = Len(answer) + 1 + Len(t.translations[1].text)
                  /\ SubSeq(t.reply, 1, Len(answer)) = answer

\* a French-speaking user's turn got a comprehension block whose translation
\* failed: the whole reply, base answer included, is untranslated
C17_Witness ==
    \E t \in tasks :
        /\ Answered(t) /\ t.outcome = "ok" /\ t.lang = "fr"
        /\ t.branch = "check"
        /\ Len(t.translations) = 1
        /\ \A i \in DOMAIN t.reply : t.reply[i].tr = "-"

\* the language a new UserState has, which is also what detect_language
\* falls back to
DefaultLocale == UserState.language

\* C18: translate_response returns the text unchanged without calling the
\* translation model when the target is the default locale or a code that
\* is not in LANGUAGE_MAP, and calls the model for every other target.
C18_IdentityForDefaultLocale ==
    fn_out.f = "translated" =>
        IF \/ fn_in.target_language = DefaultLocale
           \/ fn_in.target_language \notin LANGUAGE_MAP
        THEN fn_out.response = fn_in.response /\ ~ fn_out.model_called
        ELSE fn_out.model_called

\* C19: the messages of a turn's main completion call are the system
\* message, then the last min(3, len) entries the user's chat_history held
\* before the turn, oldest first, each as a user message followed by an
\* assistant message, then the question; no older entry is among them; and
\* a step that is not a reset of the user keeps every entry of the user's
\* chat_history.
C19_PromptHoldsLastThree ==
    [][/\ \A t \in tasks' : Answered(t) =>
             LET log == user_states'[t.user].chat_history
                 before == SubSeq(log, 1, Len(log) - 1)
                 n == Min(3, Len(before))
                 first == Len(before) - n
                 m == t.messages
             IN  /\ Len(m) = 2 * n + 2
                 /\ m[1].role = "system"
                 /\ m[1].content = SystemMessage(t.context)
                 /\ m[Len(m)].role = "user" /\ m[Len(m)].content = t.text
                 /\ \A j \in 1..n :
                       /\ m[2 * j].role = "user"
                       /\ m[2 * j].content = before[first + j].user
                       /\ m[2 * j + 1].role = "assistant"
                       /\ m[2 * j + 1].content = before[first + j].assistant
       /\ \A u \in Users :
             (HasState(user_states, u)
                 /\ ~ \E t \in tasks' \ tasks : t.user = u /\ t.kind = "reset") =>
                 /\ HasState(user_states', u)
                 /\ Len(user_states'[u].chat_history)
                        >= Len(user_states[u].chat_history)
                 /\ SubSeq(user_states'[u].chat_history, 1,
                           Len(user_states[u].chat_history))
                        = user_states[u].chat_history]_vars

\* a fifth turn has been answered: its prompt holds entries 2 to 4 of the
\* history, and the first entry, which differs from each of them, is still
\* in the log
C19_Witness ==
    \E t \in tasks :
        /\ Answered(t)
        /\ Len(user_states[t.user].chat_history) = 5
        /\ Len(t.messages) = 8
        /\ \A j \in 2..4 : user_states[t.user].chat_history[j]
                               # user_states[t.user].chat_history[1]

\* C20: within one turn the question-embedding call, the main completion
\* call and the comprehension-check completion call are each made at most
\* once, translate_response is called at most once, and a call that failed
\* is not made again: a failed embedding ends the turn after that one call,
\* a failed main completion is the turn's only completion call, a failed
\* comprehension call its second and last.
C20_NothingRetried ==
    \A t \in tasks : t.kind = "message" =>
        /\ t.embed_calls <= 1
        /\ t.completion_calls - t.check_calls <= 1
        /\ t.check_calls <= 1
        /\ Len(t.translations) <= 1
        /\ t.pc = "crashed" =>
              /\ t.embed_calls = 1
              /\ t.completion_calls = 0 /\ t.translations = <<>>
        /\ (t.outcome = "error" /\ t.branch = "-") =>
              t.completion_calls = 1 /\ t.check_calls = 0
        /\ (t.outcome = "error" /\ t.branch = "check") =>
              t.completion_calls = 2 /\ t.check_calls = 1

\* the embedding call of a turn has failed: it was made once and the turn
\* ended there
C20_Witness ==
    \E t \in tasks :
        /\ t.kind = "message" /\ t.pc = "crashed" /\ t.outcome = "raised"
        /\ t.embed_calls = 1 /\ t.completion_calls = 0

\* what query returns for the drawn vector and top_k on knowledge base kb
RoundTripQuery(kb) ==
    query_top_k(kb, Question, [ok |-> TRUE, vector |-> fn_in.vector], fn_in.top_k)

PositionOf(kb, result, i) ==
    CHOOSE p \in DOMAIN kb.documents :
        /\ kb.documents[p].page_content = result.docs[i]
        /\ kb.documents[p].metadata = result.metadata[i]

\* C22: for a question the gate accepts and an embedding call that returns,
\* query does not fail and returns min(top_k, N) chunks, each the text and
\* the metadata of the document at the position of one vector of the index,
\* no position twice, in order of non-decreasing squared L2 distance of
\* that vector to the question's, and no vector left out is nearer than one
\* returned.
C22_NearestFirst ==
    (/\ fn_out.f = "queried"
     /\ is_question_relevant(fn_in.question) /\ fn_in.embedding.ok) =>
        LET result == fn_out.result
            kb == fn_in.kb
            q == fn_in.embedding.vector
            m == Len(result.docs)
            pos == [i \in 1..m |-> PositionOf(kb, result, i)]
            d == [i \in 1..m |-> Distance(kb.index[pos[i]], q)]
        IN  /\ ~ result.raised
            /\ m = Min(fn_in.top_k, Len(kb.index))
            /\ Len(result.metadata) = m
            /\ \A i \in 1..m :
                  /\ \E p \in DOMAIN kb.documents :
                        /\ kb.documents[p].page_content = result.docs[i]
                        /\ kb.documents[p].metadata = result.metadata[i]
                  /\ pos[i] \in DOMAIN kb.index
            /\ \A i, j \in 1..m : i < j => (pos[i] # pos[j] /\ d[i] <= d[j])
            /\ \A p \in DOMAIN kb.index :
                  (\A i \in 1..m : pos[i] # p) =>
                      \A i \in 1..m : d[i] <= Distance(kb.index[p], q)

RECURSIVE Squeeze(_)
\* the text with every run of blanks written as one blank
Squeeze(text) ==
    IF Len(text) < 2 THEN text
    ELSE IF text[1] = " " /\ text[2] = " " THEN Squeeze(Tail(text))
         ELSE <<text[1]>> \o Squeeze(Tail(text))

\* the question holds a topic, whatever its case and however many blanks
\* separate its words
HoldsTopic(question) ==
    \E t \in DOMAIN RELEVANT_TOPICS :
        Contains(Squeeze(lower(question)), RELEVANT_TOPICS[t])

\* C23: is_question_relevant is true of every question that holds a topic
\* of RELEVANT_TOPICS in any letter case, with the words of a topic of
\* several words separated by any amount of whitespace, and false of every
\* question that holds none.
C23_GateIgnoresCaseAndWhitespace ==
    fn_out.f = "gated" => (fn_out.relevant <=> HoldsTopic(fn_in.question))

\* a and b are the same character, or the two cases of one letter
SameLetter(a, b) ==
    \/ a = b
    \/ \E k \in DOMAIN UpperCase :
          {a, b} = {UpperCase[k], LowerCase[k]}

\* topic occurs in the question from position i on, character by character
OccursAt(question, topic, i) ==
    /\ i + Len(topic) - 1 <= Len(question)
    /\ \A j \in DOMAIN topic : SameLetter(question[i + j - 1], topic[j])

\* C23 amended: is_question_relevant is true exactly of the questions in
\* which some topic of RELEVANT_TOPICS occurs as a run of consecutive
\* characters, letters compared without regard to case and every other
\* character, blanks included, compared as it is; the case of the question
\* and the whitespace around such a run do not matter, the whitespace inside
\* a topic of several words does.
C23_GateIsCaselessSubstring ==
    fn_out.f = "gated" =>
        (fn_out.relevant <=>
            \E t \in DOMAIN RELEVANT_TOPICS : \E i \in DOMAIN fn_in.question :
                OccursAt(fn_in.question, RELEVANT_TOPICS[t], i))

\* "Sugar cookie " was accepted: the topic is written with a capital, one
\* blank inside it and one after it
C23_Witness ==
    /\ fn_out.f = "gated" /\ fn_out.relevant
    /\ fn_in.question = <<"S","u","g","a","r"," ","c","o","o","k","i","e"," ">>


\* the answers of user u that are not counted by message_count
Uncounted(states, u) ==
    Len(states[u].gpt_answers) - states[u].message_count

\* C24: a new user state has message_count equal to the length of
\* gpt_answers, and no step other than a reset changes their difference,
\* whether the turn succeeds or fails; a reset makes the difference the
\* length gpt_answers has when it runs. So a user never reset keeps the two
\* equal, and a turn takes the follow-up branch only for a user whose
\* difference, set by a reset, is not a multiple of 3.
C24_CountFollowsAnswers ==
    /\ [](\A t \in tasks : (MainCompleted(t) /\ t.branch = "follow_up") =>
              Uncounted(user_states, t.user) % 3 # 0)
    /\ [][\A u \in Users : HasState(user_states', u) =>
             IF \E t \in tasks' \ tasks : t.kind = "reset" /\ t.user = u
             THEN Uncounted(user_states', u) =
                      (IF HasState(user_states, u)
                       THEN Len(user_states[u].gpt_answers) ELSE 0)
             ELSE Uncounted(user_states', u) =
                      (IF HasState(user_states, u)
                       THEN Uncounted(user_states, u) ELSE 0)]_vars

\* a user reset while holding one answer takes the follow-up branch three
\* turns later, holding four answers
C24_Witness ==
    \E t \in tasks :
        /\ MainCompleted(t) /\ t.branch = "follow_up"
        /\ user_states[t.user].message_count = 3
        /\ Len(user_states[t.user].gpt_answers) = 4


\* sequence s is the beginning of sequence r
IsPrefix(s, r) == Len(s) <= Len(r) /\ SubSeq(r, 1, Len(s)) = s

\* C25: whatever the turns, failures and resets, every step leaves the
\* gpt_answers a user had as the beginning of the gpt_answers the user has
\* afterwards (nothing removed, nothing changed, growth only at the end),
\* and message_count never exceeds the length of gpt_answers.
C25_AnswersOnlyGrow ==
    /\ [](\A u \in Users : HasState(user_states, u) =>
              user_states[u].message_count <= Len(user_states[u].gpt_answers))
    /\ [][\A u \in Users : HasState(user_states, u) =>
             /\ HasState(user_states', u)
             /\ IsPrefix(user_states[u].gpt_answers,
                         user_states'[u].gpt_answers)]_vars

\* a turn after a reset has appended a third answer behind two different
\* answers given before the reset
C25_Witness ==
    \E t \in tasks :
        /\ MainCompleted(t)
        /\ user_states[t.user].message_count = 1
        /\ Len(user_states[t.user].gpt_answers) = 3
        /\ user_states[t.user].gpt_answers[1] # user_states[t.user].gpt_answers[2]


\* task t as it is after the step
After(t) == CHOOSE after \in tasks' : after.id = t.id

\* C26: the length of gpt_answers counts the successful main completions of
\* a user over the whole lifetime: a turn whose main completion succeeds
\* makes it one longer, and no other step, a reset included, changes it. A
\* turn attempts the comprehension call exactly when its main completion
\* succeeds and brings that length to a multiple of 3, and the answers it
\* puts into the comprehension prompt are the last three of gpt_answers,
\* whether given before or after the latest reset.
C26_CheckCadenceOverLifetime ==
    [][/\ \A t \in tasks : (t.kind = "message" /\ t.pc = "typing") =>
             LET before == user_states[t.user].gpt_answers
                 now == user_states'[t.user].gpt_answers
                 n == Len(now)
             IN  (\E after \in tasks' : after.id = t.id /\ after.pc = "reply") =>
                    /\ MainCompleted(After(t)) => n = Len(before) + 1
                    /\ ~ MainCompleted(After(t)) => n = Len(before)
                    /\ After(t).check_calls \in {0, 1}
                    /\ After(t).check_calls = 1 <=>
                           (MainCompleted(After(t)) /\ n % 3 = 0)
                    /\ After(t).check_calls = 1 =>
                           After(t).check_answers =
                               <<now[n - 2], now[n - 1], now[n]>>
       /\ (\A t \in tasks : ~ (t.pc = "typing" /\ After(t).pc = "reply")) =>
             \A u \in Users : HasState(user_states, u) =>
                 Len(user_states'[u].gpt_answers) = Len(user_states[u].gpt_answers)
      ]_vars

\* the sixth successful main completion of a user is the first since a
\* reset, and the comprehension prompt carries two answers given before it
C26_Witness ==
    \E t \in tasks :
        /\ MainCompleted(t) /\ t.check_calls = 1
        /\ user_states[t.user].message_count = 1
        /\ Len(user_states[t.user].gpt_answers) = 6
        /\ t.check_answers =
               << <<Piece("a2")>>, <<Piece("a1")>>, <<Piece("a2")>> >>


\* an answer as the completion call returns it: one piece, not translated
RawAnswer(answer) == Len(answer) = 1 /\ answer[1].tr = "-"

\* C27: a turn whose main completion call fails leaves message_count,
\* gpt_answers and last_answer as they were; a turn whose main completion
\* succeeds and whose comprehension call fails has appended the raw answer
\* to gpt_answers and added one to message_count, and leaves last_answer as
\* it was; a turn that succeeds does the same two and sets last_answer to
\* the raw answer it appended, not to the augmented or translated reply. No
\* step other than a turn that succeeds writes last_answer of a state (a
\* reset puts a new state, whose last_answer is empty, in its place).
C27_FailureLeavesLastAnswer ==
    [][/\ \A t \in tasks : (t.kind = "message" /\ t.pc = "typing"
                             /\ After(t).pc # "typing") =>
             LET old == user_states[t.user]
                 new == user_states'[t.user]
                 n == Len(new.gpt_answers)
                 recorded == /\ new.gpt_answers = Append(old.gpt_answers,
                                                         new.gpt_answers[n])
                             /\ RawAnswer(new.gpt_answers[n])
                             /\ new.message_count = old.message_count + 1
             IN  /\ ~ MainCompleted(After(t)) =>
                        /\ new.message_count = old.message_count
                        /\ new.gpt_answers = old.gpt_answers
                        /\ new.last_answer = old.last_answer
                 /\ (MainCompleted(After(t)) /\ After(t).outcome = "error") =>
                        /\ After(t).branch = "check"
                        /\ recorded
                        /\ new.last_answer = old.last_answer
                 /\ After(t).outcome = "ok" =>
                        /\ recorded
                        /\ new.last_answer = new.gpt_answers[n]
       /\ (\A t \in tasks : ~ (t.pc = "typing" /\ After(t).pc # "typing")) =>
             \A u \in Users :
                 (/\ HasState(user_states, u)
                  /\ ~ \E t \in tasks' \ tasks : t.kind = "reset" /\ t.user = u) =>
                     user_states'[u].last_answer = user_states[u].last_answer
      ]_vars

\* the comprehension call of a user's third answer has failed in the second
\* turn since a reset: the answer of the turn is recorded and counted, and
\* last_answer is still the different answer of the turn before
C27_Witness ==
    \E t \in tasks :
        /\ MainCompleted(t) /\ t.outcome = "error" /\ t.branch = "check"
        /\ user_states[t.user].message_count = 2
        /\ user_states[t.user].gpt_answers[2] = <<Piece("a1")>>
        /\ user_states[t.user].gpt_answers[3] = <<Piece("a2")>>
        /\ user_states[t.user].last_answer = <<Piece("a1")>>

====
